---- MODULE Spec2Model ----
(***************************************************************************)
(* Model of ComputerInventory (src/app1.py): the catalog `computers`, the  *)
(* ledger `sales_history`, and the operations add_computer,                *)
(* remove_computer, update_stock, process_sale, get_inventory_report and   *)
(* get_sales_report.                                                       *)
(*                                                                         *)
(* Spec      : the operations executed one at a time (each action is one   *)
(*             whole method call).                                         *)
(* SalesSpec : a catalog of items with stock >= 0 and only process_sale    *)
(*             calls with positive quantity.                               *)
(* LedgerSpec: one item, added, restocked, removed and sold by the unit    *)
(*             under a clock that may return any reading (equal or         *)
(*             decreasing ones too), and the reports.                      *)
(* ConcSpec  : process_sale and update_stock called from several threads,  *)
(*             interleaved statement by statement (the code takes no lock).*)
(*                                                                         *)
(* In Spec, SalesSpec and ConcSpec the n-th reading of datetime.now() is n *)
(* (the clock is read once per recorded sale); LedgerSpec lets every       *)
(* reading be any value of Dates.                                          *)
(* Quantities passed to process_sale are 0..MaxQty, deltas passed to       *)
(* update_stock are -MaxQty..MaxQty.                                       *)
(* Prices are modelled as integers; brand, model and specs of a Computer   *)
(* are never read by any operation and are left out.                       *)
(***************************************************************************)
EXTENDS Integers, Sequences, FiniteSets, TLC

\* ---------------------------------------------------------------- bounds
MaxStock == 2      \* largest stock of a computer
MaxDebt  == 1      \* stock is kept >= -MaxDebt
MaxQty   == 2      \* largest quantity passed to a call
MaxSales == 2      \* largest length of sales_history
MaxDate  == 2      \* largest clock reading

\* ------------------------------------------------------------ input sets
CatalogIds == {"LP001", "LP002"}
AllIds     == CatalogIds \cup {"UNKNOWN"}
Quantities == 0..MaxQty
Deltas     == (0 - MaxQty)..MaxQty
Stocks     == (0 - MaxDebt)..MaxStock
\* <<wholesale_price, retail_price>> of the computers a caller may add, per id
PriceLists(id) == IF id = "LP001" THEN { <<800, 1200>>, <<900, 1500>> }
                                  ELSE { <<500, 700>> }

\* datetime.min, the default start_date of get_sales_report
DateMin == 0
\* values datetime.datetime.now() may return (LedgerSpec)
Dates   == 1..MaxDate
None    == "None"
\* the optional argument of get_sales_report: <<>> when omitted, <<d>> when given
StartDates == {<<>>} \cup { <<d>> : d \in Dates }

\* class SaleType(Enum)
SaleType == {"WHOLESALE", "RETAIL"}
\* SaleType.<member>.value
Value(sale_type) == IF sale_type = "WHOLESALE" THEN "wholesale" ELSE "retail"

\* @dataclass Computer (the fields the operations read)
Computer(id, wholesale_price, retail_price, stock) ==
    [id |-> id, wholesale_price |-> wholesale_price,
     retail_price |-> retail_price, stock |-> stock]

\* the Computer objects a caller passes to add_computer
NewComputers ==
    UNION { { Computer(id, p[1], p[2], s) : p \in PriceLists(id), s \in 0..MaxStock }
            : id \in CatalogIds }

Threads == {1, 2}

VARIABLES
    computers,       \* self.computers: dict id -> Computer
    sales_history,   \* self.sales_history: list of sale records
    ret,             \* what the last completed call returned or raised
    pc,              \* ConcSpec: the statement each thread is at
    loc              \* ConcSpec: the local variables of each thread's call

vars == <<computers, sales_history, ret, pc, loc>>

\* ------------------------------------------------------- results of calls
\* kind: what sort of value the call handed back
\*   "None" | "bool" | "sale_record" | "inventory_report" | "sales_report" | "ValueError"
Returned(kind, val) == [kind |-> kind, val |-> val]

\* raise ValueError(msg), wrongly handed back as an ordinary value
Raised_AsValue(msg) == [kind |-> "None", val |-> msg]
\* raise ValueError(msg)
Raised(msg) == [kind |-> "ValueError", val |-> msg]

EmptyDict == [i \in {} |-> 0]
\* the arguments and local variables of a call in progress (ConcSpec)
\*   seen: the stock the check of process_sale compared; tmp: the stock read
\*   by the statement computer.stock -= / += quantity before it writes
Locals(computer_id, quantity, sale_type) ==
    [computer_id |-> computer_id, quantity |-> quantity, sale_type |-> sale_type,
     seen |-> 0, price |-> 0, total_price |-> 0, tmp |-> 0]
NoLocals  == Locals("", 0, "")

\* ComputerInventory.__init__
Init ==
    /\ computers = EmptyDict
    /\ sales_history = <<>>
    /\ ret = Returned("None", None)
    /\ pc = [t \in Threads |-> "idle"]
    /\ loc = [t \in Threads |-> NoLocals]

\* self.computers[computer.id] = computer
DictSet(d, k, v) == [i \in DOMAIN d \cup {k} |-> IF i = k THEN v ELSE d[i]]
\* self.computers.clear() where one key was to go
DictDel_Clear(d, k) == [i \in {} |-> d[i]]
\* del self.computers[computer_id]
DictDel(d, k) == [i \in DOMAIN d \ {k} |-> d[i]]

\* an overwrite that also reprices the recorded sales of the item
add_computer_Repricing(computer) ==
    /\ computers' = DictSet(computers, computer.id, computer)
    /\ ret' = Returned("None", None)
    /\ sales_history' =
          [i \in 1..Len(sales_history) |->
             LET sale  == sales_history[i]
                 price == IF sale.sale_type = "wholesale"
                          THEN computer.wholesale_price
                          ELSE computer.retail_price
             IN IF sale.computer_id = computer.id
                THEN [sale EXCEPT !.unit_price = price,
                                  !.total_price = price * sale.quantity]
                ELSE sale]
    /\ UNCHANGED <<pc, loc>>
\* self.computers[computer.id] = computer
add_computer(computer) ==
    /\ computers' = DictSet(computers, computer.id, computer)
    /\ ret' = Returned("None", None)
    /\ UNCHANGED <<sales_history, pc, loc>>

remove_computer(computer_id) ==
    /\ computers' = IF computer_id \in DOMAIN computers
                    THEN DictDel(computers, computer_id)
                    ELSE computers
    /\ ret' = Returned("None", None)
    /\ UNCHANGED <<sales_history, pc, loc>>

\* the sum clamped at zero: computer.stock = max(0, computer.stock + quantity)
AddStock_Clamped(computer, quantity) ==
    [computer EXCEPT !.stock = IF @ + quantity < 0 THEN 0 ELSE @ + quantity]
\* computer.stock -= quantity where += was meant
AddStock_Subtracts(computer, quantity) == [computer EXCEPT !.stock = @ - quantity]
\* computer.stock += quantity
AddStock(computer, quantity) == [computer EXCEPT !.stock = @ + quantity]

update_stock(computer_id, quantity) ==
    /\ IF computer_id \in DOMAIN computers
       THEN /\ AddStock(computers[computer_id], quantity).stock \in Stocks
            /\ computers' = [computers EXCEPT
                               ![computer_id] = AddStock(@, quantity)]
            /\ ret' = Returned("bool", TRUE)
       ELSE /\ computers' = computers
            /\ ret' = Returned("bool", FALSE)
    /\ UNCHANGED <<sales_history, pc, loc>>

\* the check off by one: a sale of stock + 1 units passes
InsufficientStock_OffByOne(computer, quantity) == computer.stock + 1 < quantity
\* the check against an empty shelf only: any sale passes while stock is positive
InsufficientStock_EmptyOnly(computer, quantity) ==
    computer.stock <= 0 /\ computer.stock < quantity
\* if computer.stock < quantity: raise ValueError("Insufficient stock")
InsufficientStock(computer, quantity) == computer.stock < quantity

\* the two prices swapped
SalePrice_Swapped(computer, sale_type) ==
    IF sale_type = "WHOLESALE" THEN computer.retail_price
                               ELSE computer.wholesale_price
\* price = wholesale_price if sale_type == SaleType.WHOLESALE else retail_price
SalePrice(computer, sale_type) ==
    IF sale_type = "WHOLESALE" THEN computer.wholesale_price
                               ELSE computer.retail_price

\* total_price = price, the quantity forgotten
TotalPrice_Unit(price, quantity) == price
\* total_price = price * quantity
TotalPrice(price, quantity) == price * quantity

\* one unit taken whatever the quantity sold: computer.stock -= 1
TakeStock_One(computer, quantity) == [computer EXCEPT !.stock = @ - 1]
\* computer.stock -= quantity
TakeStock(computer, quantity) == [computer EXCEPT !.stock = @ - quantity]

\* sale_record = {...}
SaleRecord(now, computer_id, quantity, sale_type, total_price, price) ==
    [date |-> now, computer_id |-> computer_id, quantity |-> quantity,
     sale_type |-> Value(sale_type), total_price |-> total_price,
     unit_price |-> price]

\* datetime.datetime.now() under a clock that ticks once per reading: the clock
\* is read once per recorded sale, so the n-th reading is n
Tick == Len(sales_history) + 1

\* self.sales_history.insert(0, sale_record)
Append_Front(history, sale_record) == <<sale_record>> \o history
\* self.sales_history.append(sale_record)
Append_(history, sale_record) == Append(history, sale_record)

process_sale(computer_id, quantity, sale_type, now) ==
    /\ IF computer_id \notin DOMAIN computers
       THEN /\ ret' = Raised("Computer not found")
            /\ UNCHANGED <<computers, sales_history>>
       ELSE LET computer == computers[computer_id] IN
            IF InsufficientStock(computer, quantity)
            THEN /\ ret' = Raised("Insufficient stock")
                 /\ UNCHANGED <<computers, sales_history>>
            ELSE LET price       == SalePrice(computer, sale_type)
                     total_price == TotalPrice(price, quantity)
                     sale_record == SaleRecord(now, computer_id, quantity,
                                               sale_type, total_price, price)
                 IN /\ Len(sales_history) < MaxSales
                    /\ computers' = [computers EXCEPT
                                       ![computer_id] = TakeStock(@, quantity)]
                    /\ sales_history' = Append_(sales_history, sale_record)
                    /\ ret' = Returned("sale_record", sale_record)
    /\ UNCHANGED <<pc, loc>>

\* sum(f(c) for c in d.values()), f given as a function on the keys
RECURSIVE SumValues(_, _)
SumValues(f, keys) ==
    IF keys = {} THEN 0
    ELSE LET k == CHOOSE k \in keys : TRUE
         IN f[k] + SumValues(f, keys \ {k})

\* total_retail_value computed from wholesale_price (a copied line)
InventoryReport_CopiedLine(d) ==
    [total_computers |-> Cardinality(DOMAIN d),
     total_stock |-> SumValues([k \in DOMAIN d |-> d[k].stock], DOMAIN d),
     total_wholesale_value |->
         SumValues([k \in DOMAIN d |-> d[k].stock * d[k].wholesale_price], DOMAIN d),
     total_retail_value |->
         SumValues([k \in DOMAIN d |-> d[k].stock * d[k].wholesale_price], DOMAIN d)]

InventoryReport(d) ==
    [total_computers |-> Cardinality(DOMAIN d),
     total_stock |-> SumValues([k \in DOMAIN d |-> d[k].stock], DOMAIN d),
     total_wholesale_value |->
         SumValues([k \in DOMAIN d |-> d[k].stock * d[k].wholesale_price], DOMAIN d),
     total_retail_value |->
         SumValues([k \in DOMAIN d |-> d[k].stock * d[k].retail_price], DOMAIN d)]

get_inventory_report ==
    /\ ret' = Returned("inventory_report", InventoryReport(computers))
    /\ UNCHANGED <<computers, sales_history, pc, loc>>

\* if start_date is None: start_date = datetime.datetime.min
StartDate(start_date) == IF start_date = <<>> THEN DateMin ELSE start_date[1]

\* the comparison turned round: sale["date"] <= start_date
FilteredSales_Before(history, start_date) ==
    SelectSeq(history, LAMBDA sale : sale.date <= start_date)
\* the bound made exclusive: sale["date"] > start_date
FilteredSales_Strict(history, start_date) ==
    SelectSeq(history, LAMBDA sale : sale.date > start_date)
\* [sale for sale in history if sale["date"] >= start_date]
FilteredSales(history, start_date) ==
    SelectSeq(history, LAMBDA sale : sale.date >= start_date)

\* sum(sale["total_price"] for sale in sales if sale["sale_type"] == value)
RECURSIVE SumTotalPrice(_, _)
SumTotalPrice(sales, value) ==
    IF sales = <<>> THEN 0
    ELSE (IF Head(sales).sale_type = value THEN Head(sales).total_price ELSE 0)
         + SumTotalPrice(Tail(sales), value)

SalesReport(history, start_date) ==
    LET filtered_sales  == FilteredSales(history, StartDate(start_date))
        wholesale_sales == SumTotalPrice(filtered_sales, Value("WHOLESALE"))
        retail_sales    == SumTotalPrice(filtered_sales, Value("RETAIL"))
    IN [total_sales |-> Len(filtered_sales),
        wholesale_revenue |-> wholesale_sales,
        retail_revenue |-> retail_sales,
        total_revenue |-> wholesale_sales + retail_sales]

\* a report that takes the records it reports out of the ledger
get_sales_report_Draining(start_date) ==
    /\ ret' = [kind |-> "sales_report",
               val |-> SalesReport(sales_history, start_date),
               arg |-> start_date]
    /\ sales_history' = SelectSeq(sales_history,
                            LAMBDA sale : sale.date < StartDate(start_date))
    /\ UNCHANGED <<computers, pc, loc>>
\* ret also keeps the argument the report was asked with
get_sales_report(start_date) ==
    /\ ret' = [kind |-> "sales_report",
               val |-> SalesReport(sales_history, start_date),
               arg |-> start_date]
    /\ UNCHANGED <<computers, sales_history, pc, loc>>

Next ==
    \/ \E computer \in NewComputers : add_computer(computer)
    \/ \E computer_id \in AllIds : remove_computer(computer_id)
    \/ \E computer_id \in AllIds, quantity \in Deltas :
           update_stock(computer_id, quantity)
    \/ \E computer_id \in AllIds, quantity \in Quantities, sale_type \in SaleType :
           process_sale(computer_id, quantity, sale_type, Tick)
    \/ get_inventory_report
    \/ \E start_date \in StartDates : get_sales_report(start_date)

Spec == Init /\ [][Next]_vars

\* -------------------------------------------------------------- SalesSpec
\* the catalogs add_computer can build from NewComputers (every stock >= 0)
Catalogs ==
    UNION { { d \in [keys -> NewComputers] : \A k \in keys : d[k].id = k }
            : keys \in SUBSET CatalogIds }

SalesInit ==
    /\ computers \in Catalogs
    /\ sales_history = <<>>
    /\ ret = Returned("None", None)
    /\ pc = [t \in Threads |-> "idle"]
    /\ loc = [t \in Threads |-> NoLocals]

SalesNext ==
    \E computer_id \in AllIds, quantity \in 1..MaxQty, sale_type \in SaleType :
        process_sale(computer_id, quantity, sale_type, Tick)

SalesSpec == SalesInit /\ [][SalesNext]_vars

\* --------------------------------------------------------------- ConcSpec
\* process_sale and update_stock called from the threads of Threads on one
\* ComputerInventory, with no lock: a thread switch may fall between any two
\* statements, and between the read and the write of computer.stock -= quantity.
\* pc[t] names the statement thread t executes next.
ConcIds    == {"LP001", "UNKNOWN"}
ConcDeltas == {0 - 1, 1}

ConcInit ==
    /\ computers \in { d \in Catalogs : /\ DOMAIN d = {"LP001"}
                                        /\ d["LP001"].wholesale_price = 800 }
    /\ sales_history = <<>>
    /\ ret = Returned("None", None)
    /\ pc = [t \in Threads |-> "idle"]
    /\ loc = [t \in Threads |-> NoLocals]

InSale(t) == pc[t] \in {"ps_lookup", "ps_check", "ps_price", "ps_load",
                        "ps_store", "ps_record"}

\* thread t calls process_sale(computer_id, quantity, sale_type)
call_process_sale(t, computer_id, quantity, sale_type) ==
    /\ pc[t] = "idle"
    /\ Len(sales_history) + Cardinality({u \in Threads : InSale(u)}) < MaxSales
    /\ pc' = [pc EXCEPT ![t] = "ps_lookup"]
    /\ loc' = [loc EXCEPT ![t] = Locals(computer_id, quantity, sale_type)]
    /\ UNCHANGED <<computers, sales_history, ret>>

\* if computer_id not in self.computers: raise ValueError("Computer not found")
ps_lookup(t) ==
    /\ pc[t] = "ps_lookup"
    /\ IF loc[t].computer_id \notin DOMAIN computers
       THEN /\ ret' = Raised("Computer not found")
            /\ pc' = [pc EXCEPT ![t] = "idle"]
            /\ loc' = [loc EXCEPT ![t] = NoLocals]
       ELSE /\ pc' = [pc EXCEPT ![t] = "ps_check"]
            /\ UNCHANGED <<ret, loc>>
    /\ UNCHANGED <<computers, sales_history>>

\* computer = self.computers[computer_id]
\* if computer.stock < quantity: raise ValueError("Insufficient stock")
ps_check(t) ==
    /\ pc[t] = "ps_check"
    /\ LET computer == computers[loc[t].computer_id] IN
       IF InsufficientStock(computer, loc[t].quantity)
       THEN /\ ret' = Raised("Insufficient stock")
            /\ pc' = [pc EXCEPT ![t] = "idle"]
            /\ loc' = [loc EXCEPT ![t] = NoLocals]
       ELSE /\ pc' = [pc EXCEPT ![t] = "ps_price"]
            /\ loc' = [loc EXCEPT ![t].seen = computer.stock]
            /\ UNCHANGED ret
    /\ UNCHANGED <<computers, sales_history>>

\* price = ...; total_price = price * quantity
ps_price(t) ==
    /\ pc[t] = "ps_price"
    /\ LET price == SalePrice(computers[loc[t].computer_id], loc[t].sale_type) IN
       loc' = [loc EXCEPT ![t].price = price,
                          ![t].total_price = TotalPrice(price, loc[t].quantity)]
    /\ pc' = [pc EXCEPT ![t] = "ps_load"]
    /\ UNCHANGED <<computers, sales_history, ret>>

\* computer.stock -= quantity: the read of computer.stock
ps_load(t) ==
    /\ pc[t] = "ps_load"
    /\ loc' = [loc EXCEPT ![t].tmp = computers[loc[t].computer_id].stock]
    /\ pc' = [pc EXCEPT ![t] = "ps_store"]
    /\ UNCHANGED <<computers, sales_history, ret>>

\* computer.stock -= quantity: the write of computer.stock
ps_store(t) ==
    /\ pc[t] = "ps_store"
    /\ computers' = [computers EXCEPT ![loc[t].computer_id] =
                        TakeStock([@ EXCEPT !.stock = loc[t].tmp], loc[t].quantity)]
    /\ pc' = [pc EXCEPT ![t] = "ps_record"]
    /\ UNCHANGED <<sales_history, ret, loc>>

\* sale_record = {...}; self.sales_history.append(sale_record); return sale_record
ps_record(t) ==
    /\ pc[t] = "ps_record"
    /\ LET sale_record == SaleRecord(Tick, loc[t].computer_id, loc[t].quantity,
                                     loc[t].sale_type, loc[t].total_price,
                                     loc[t].price) IN
       /\ sales_history' = Append_(sales_history, sale_record)
       /\ ret' = Returned("sale_record", sale_record)
    /\ pc' = [pc EXCEPT ![t] = "idle"]
    /\ loc' = [loc EXCEPT ![t] = NoLocals]
    /\ UNCHANGED computers

\* thread t calls update_stock(computer_id, quantity)
call_update_stock(t, computer_id, quantity) ==
    /\ pc[t] = "idle"
    /\ pc' = [pc EXCEPT ![t] = "us_lookup"]
    /\ loc' = [loc EXCEPT ![t] = Locals(computer_id, quantity, "")]
    /\ UNCHANGED <<computers, sales_history, ret>>

\* if computer_id in self.computers: ... / return False
us_lookup(t) ==
    /\ pc[t] = "us_lookup"
    /\ IF loc[t].computer_id \in DOMAIN computers
       THEN /\ pc' = [pc EXCEPT ![t] = "us_load"]
            /\ UNCHANGED <<ret, loc>>
       ELSE /\ ret' = Returned("bool", FALSE)
            /\ pc' = [pc EXCEPT ![t] = "idle"]
            /\ loc' = [loc EXCEPT ![t] = NoLocals]
    /\ UNCHANGED <<computers, sales_history>>

\* self.computers[computer_id].stock += quantity: the read of stock
us_load(t) ==
    /\ pc[t] = "us_load"
    /\ loc' = [loc EXCEPT ![t].tmp = computers[loc[t].computer_id].stock]
    /\ pc' = [pc EXCEPT ![t] = "us_store"]
    /\ UNCHANGED <<computers, sales_history, ret>>

\* self.computers[computer_id].stock += quantity: the write of stock; return True
us_store(t) ==
    /\ pc[t] = "us_store"
    /\ loc[t].tmp + loc[t].quantity \in Stocks
    /\ computers' = [computers EXCEPT ![loc[t].computer_id] =
                        AddStock([@ EXCEPT !.stock = loc[t].tmp], loc[t].quantity)]
    /\ ret' = Returned("bool", TRUE)
    /\ pc' = [pc EXCEPT ![t] = "idle"]
    /\ loc' = [loc EXCEPT ![t] = NoLocals]
    /\ UNCHANGED sales_history

ConcNext ==
    \E t \in Threads :
        \/ \E computer_id \in ConcIds, quantity \in 1..MaxQty, sale_type \in SaleType :
               call_process_sale(t, computer_id, quantity, sale_type)
        \/ ps_lookup(t)
        \/ ps_check(t)
        \/ ps_price(t)
        \/ ps_load(t)
        \/ ps_store(t)
        \/ ps_record(t)
        \/ \E computer_id \in ConcIds, quantity \in ConcDeltas :
               call_update_stock(t, computer_id, quantity)
        \/ us_lookup(t)
        \/ us_load(t)
        \/ us_store(t)

ConcSpec == ConcInit /\ [][ConcNext]_vars

\* ------------------------------------------------------------- LedgerSpec
\* the item sold in LedgerSpec
LedgerComputers == { c \in NewComputers : c.id = "LP001" /\ c.stock = MaxStock }

LedgerNext ==
    \/ \E computer \in LedgerComputers : add_computer(computer)
    \/ remove_computer("LP001")
    \/ \E quantity \in Deltas : update_stock("LP001", quantity)
    \/ get_inventory_report
    \/ \E sale_type \in SaleType, now \in Dates :
           process_sale("LP001", 1, sale_type, now)
    \/ \E start_date \in StartDates \cup {<<MaxDate + 1>>} :
           get_sales_report(start_date)

LedgerSpec == Init /\ [][LedgerNext]_vars

\* ------------------------------------------------------------------ claims
IsPrefix(s, t) == Len(s) <= Len(t) /\ SubSeq(t, 1, Len(s)) = s

\* the two errors of process_sale, as a caller sees them
NotFoundError          == [kind |-> "ValueError", val |-> "Computer not found"]
InsufficientStockError == [kind |-> "ValueError", val |-> "Insufficient stock"]

\* C1: from a catalog whose items all have stock >= 0, after any sequence of
\* process_sale calls with positive quantity (successful or failed, one at a
\* time), every item of the catalog has stock >= 0.  (Checked under SalesSpec.)
C1_SalesKeepStockNonNegative ==
    \A id \in DOMAIN computers : computers[id].stock >= 0

\* C1 witness: both items sold out by two successful sales, and a further
\* sale was refused.
C1_Witness ==
    /\ Len(sales_history) = 2
    /\ DOMAIN computers = CatalogIds
    /\ \A id \in CatalogIds : computers[id].stock = 0
    /\ ret = InsufficientStockError

\* C2: under concurrent process_sale and update_stock calls on one item, the
\* stock check, the decrement and the ledger append of a process_sale are one
\* indivisible unit: from the check to the decrement the item's stock is the
\* stock that was checked, and from the decrement to the append it is that
\* stock minus the quantity; no other call's write falls in between.
\* (Checked under ConcSpec.)
C2_SaleIsIndivisible ==
    \A t \in Threads :
        /\ pc[t] \in {"ps_price", "ps_load", "ps_store"}
             => computers[loc[t].computer_id].stock = loc[t].seen
        /\ pc[t] = "ps_record"
             => computers[loc[t].computer_id].stock = loc[t].seen - loc[t].quantity

\* C3: process_sale(id, quantity, type) with id in the catalog and
\* quantity > current stock raises "Insufficient stock" and leaves the catalog
\* and the ledger exactly as they were.
C3_InsufficientStockNoEffect ==
    [][\A computer_id \in DOMAIN computers :
         \A quantity \in Quantities :
           quantity > computers[computer_id].stock =>
             \A sale_type \in SaleType :
               process_sale(computer_id, quantity, sale_type, Tick)
               => ( /\ ret' = InsufficientStockError
                    /\ computers' = computers
                    /\ sales_history' = sales_history )]_vars

\* C3 witness: the only item has 1 unit left after a sale, and a call (for
\* 2 units) was refused: nothing was fulfilled in part.
C3_Witness ==
    /\ ret = InsufficientStockError
    /\ DOMAIN computers = {"LP001"}
    /\ computers["LP001"].stock = 1
    /\ Len(sales_history) = 1

\* C4: process_sale on an id that is not a key of the catalog raises
\* "Computer not found" for every quantity and sale type, and leaves the
\* catalog and the ledger exactly as they were.
C4_NotFoundNoEffect ==
    [][\A computer_id \in AllIds \ DOMAIN computers :
         \A quantity \in Quantities, sale_type \in SaleType :
           process_sale(computer_id, quantity, sale_type, Tick)
           => ( /\ ret' = NotFoundError
                /\ computers' = computers
                /\ sales_history' = sales_history )]_vars

\* C4 witness: a call was refused as not found while the catalog holds an
\* item in stock and the ledger a record.
C4_Witness ==
    /\ ret = NotFoundError
    /\ \E id \in DOMAIN computers : computers[id].stock > 0
    /\ Len(sales_history) >= 1

\* C5: every record of the ledger has total_price = unit_price * quantity,
\* whatever calls came before or after it was appended.
C5_TotalIsUnitTimesQuantity ==
    \A i \in 1..Len(sales_history) :
        sales_history[i].total_price
            = sales_history[i].unit_price * sales_history[i].quantity

\* C5 witness: a record of 2 units whose item has since been overwritten with
\* other prices.
C5_Witness ==
    \E i \in 1..Len(sales_history) :
        LET r == sales_history[i] IN
        /\ r.quantity = 2
        /\ r.computer_id \in DOMAIN computers
        /\ computers[r.computer_id].wholesale_price # r.unit_price
        /\ computers[r.computer_id].retail_price # r.unit_price

\* C6: process_sale(id, q, type) with id in the catalog and 1 <= q <= stock
\* succeeds: the stock drops by q, exactly one record is appended at the end
\* of the ledger and returned, with computer_id = id, quantity = q, sale_type
\* "wholesale"/"retail", unit_price the item's wholesale/retail price and
\* total_price = unit_price * q.
C6_SuccessfulSale ==
    [][\A computer_id \in DOMAIN computers :
         \A quantity \in 1..MaxQty :
           quantity <= computers[computer_id].stock =>
             \A sale_type \in SaleType :
               process_sale(computer_id, quantity, sale_type, Tick)
               => ( /\ ret'.kind = "sale_record"
                    /\ computers'[computer_id].stock
                           = computers[computer_id].stock - quantity
                    /\ Len(sales_history') = Len(sales_history) + 1
                    /\ SubSeq(sales_history', 1, Len(sales_history)) = sales_history
                    /\ sales_history'[Len(sales_history')] = ret'.val
                    /\ ret'.val.computer_id = computer_id
                    /\ ret'.val.quantity = quantity
                    /\ ret'.val.sale_type
                           = (IF sale_type = "WHOLESALE" THEN "wholesale" ELSE "retail")
                    /\ ret'.val.unit_price
                           = (IF sale_type = "WHOLESALE"
                              THEN computers[computer_id].wholesale_price
                              ELSE computers[computer_id].retail_price)
                    /\ ret'.val.total_price = ret'.val.unit_price * quantity )]_vars

\* C6 witness: a wholesale sale followed by a retail sale of the same item,
\* which started with 2 units at 800/1200, the second one just returned.
C6_Witness ==
    /\ Len(sales_history) = 2
    /\ ret = [kind |-> "sale_record", val |-> sales_history[2]]
    /\ sales_history[1].computer_id = "LP001"
    /\ sales_history[1].sale_type = "wholesale"
    /\ sales_history[1].total_price = 800
    /\ sales_history[2].computer_id = "LP001"
    /\ sales_history[2].sale_type = "retail"
    /\ sales_history[2].total_price = 1200
    /\ "LP001" \in DOMAIN computers
    /\ computers["LP001"].stock = 0

\* this step is a process_sale call that returned a record
SuccessfulSale ==
    /\ ret'.kind = "sale_record"
    /\ \E computer_id \in DOMAIN computers, quantity \in Quantities,
          sale_type \in SaleType :
           process_sale(computer_id, quantity, sale_type, Tick)

\* C7: the ledger is append-only: across every operation the old ledger is a
\* prefix of the new one; it grows by exactly 1 on a successful process_sale
\* and by 0 on every other call.
C7_LedgerAppendOnly ==
    [][ /\ IsPrefix(sales_history, sales_history')
        /\ Len(sales_history')
             = Len(sales_history) + (IF SuccessfulSale THEN 1 ELSE 0) ]_vars

\* C7 witness: the ledger holds two different records and the item of the
\* first one has been removed from the catalog.
C7_Witness ==
    /\ Len(sales_history) = 2
    /\ sales_history[1].computer_id # sales_history[2].computer_id
    /\ sales_history[1].computer_id \notin DOMAIN computers

\* C8 as stated: no catalog item ever has negative stock, whatever
\* add_computer, remove_computer, update_stock and process_sale calls were made.
C8_StockNeverNegative ==
    ~ \E id \in DOMAIN computers : computers[id].stock < 0

\* this step is an update_stock call with a delta below minus the current stock
Overdraw ==
    \E computer_id \in DOMAIN computers :
        \E quantity \in Deltas :
            /\ computers[computer_id].stock + quantity < 0
            /\ update_stock(computer_id, quantity)

\* C8 amended: no operation other than an update_stock whose delta is below
\* minus the item's current stock makes a stock negative: from a state where
\* every stock is >= 0, every add_computer (stock >= 0), remove_computer,
\* process_sale and update_stock with delta >= -stock leads to a state where
\* every stock is >= 0.
C8_OnlyOverdrawMakesStockNegative ==
    [][ ( /\ \A id \in DOMAIN computers : computers[id].stock >= 0
          /\ \E id \in DOMAIN computers' : computers'[id].stock < 0 )
        => Overdraw ]_vars

\* C8 witness: update_stock returned True having taken an item down to
\* exactly 0, after a sale.
C8_Witness ==
    /\ ret = [kind |-> "bool", val |-> TRUE]
    /\ Len(sales_history) >= 1
    /\ DOMAIN computers = CatalogIds
    /\ \A id \in CatalogIds : computers[id].stock = 0

\* the catalog ids in a fixed order
IdSeq ==
    CHOOSE s \in [1..Cardinality(CatalogIds) -> CatalogIds] :
        {s[i] : i \in DOMAIN s} = CatalogIds

\* per-id contribution, 0 for an id with no entry
StockOf(id)     == IF id \in DOMAIN computers THEN computers[id].stock ELSE 0
WholesaleOf(id) == IF id \in DOMAIN computers
                   THEN computers[id].stock * computers[id].wholesale_price ELSE 0
RetailOf(id)    == IF id \in DOMAIN computers
                   THEN computers[id].stock * computers[id].retail_price ELSE 0

RECURSIVE Recount(_, _)
Recount(Of(_), n) == IF n = 0 THEN 0 ELSE Of(IdSeq[n]) + Recount(Of, n - 1)

\* C9: what get_inventory_report returns is the number of catalog entries, the
\* sum of stock, of stock * wholesale_price and of stock * retail_price over the
\* catalog, as recomputed id by id from the current catalog; all zeros for an
\* empty catalog.
C9_InventoryReportTotals ==
    ret.kind = "inventory_report" =>
        /\ ret.val.total_computers
               = Cardinality({id \in CatalogIds : id \in DOMAIN computers})
        /\ ret.val.total_stock = Recount(StockOf, Len(IdSeq))
        /\ ret.val.total_wholesale_value = Recount(WholesaleOf, Len(IdSeq))
        /\ ret.val.total_retail_value = Recount(RetailOf, Len(IdSeq))
        /\ (computers = EmptyDict =>
               ret.val = [total_computers |-> 0, total_stock |-> 0,
                          total_wholesale_value |-> 0, total_retail_value |-> 0])

\* C9 witness: a report over two items in stock, one of them after a sale:
\* 1 unit at 800/1200 and 2 units at 500/700.
C9_Witness ==
    /\ ret.kind = "inventory_report"
    /\ Len(sales_history) = 1
    /\ ret.val = [total_computers |-> 2, total_stock |-> 3,
                  total_wholesale_value |-> 1800, total_retail_value |-> 2600]

\* C10: for every reachable ledger and start times t1 <= t2,
\* get_sales_report(t1).total_sales >= get_sales_report(t2).total_sales, and
\* the report with no start time counts at least as many sales as any other.
\* (Checked under LedgerSpec.)
C10_SalesReportMonotonic ==
    /\ \A t1 \in DateMin..(MaxDate + 1) :
         \A t2 \in t1..(MaxDate + 1) :
              SalesReport(sales_history, <<t1>>).total_sales
                  >= SalesReport(sales_history, <<t2>>).total_sales
    /\ \A t \in DateMin..(MaxDate + 1) :
          SalesReport(sales_history, <<>>).total_sales
              >= SalesReport(sales_history, <<t>>).total_sales

\* C10 witness: a ledger whose later record carries the earlier time; the
\* report from the later time, just returned, counts 1 of the 2 sales.
C10_Witness ==
    /\ Len(sales_history) = 2
    /\ sales_history[1].date = 2
    /\ sales_history[2].date = 1
    /\ ret.kind = "sales_report"
    /\ ret.val.total_sales = 1

\* the positions of the ledger records stamped start_date or later
From(start_date) ==
    {i \in 1..Len(sales_history) : ~(sales_history[i].date < start_date)}

\* the sum of the stored total_price over the positions of S
RECURSIVE Revenue(_)
Revenue(S) ==
    IF S = {} THEN 0
    ELSE LET i == CHOOSE i \in S : TRUE
         IN sales_history[i].total_price + Revenue(S \ {i})

\* the report that counting the ledger positions in S gives
Tally(S) ==
    LET wholesale == {i \in S : sales_history[i].sale_type = "wholesale"}
        retail    == {i \in S : sales_history[i].sale_type = "retail"}
    IN [total_sales |-> Cardinality(S),
        wholesale_revenue |-> Revenue(wholesale),
        retail_revenue |-> Revenue(retail),
        total_revenue |-> Revenue(wholesale) + Revenue(retail)]

\* C11: get_sales_report(t) returns total_sales = the number of ledger records
\* with timestamp >= t (a record stamped exactly t counts), wholesale_revenue
\* and retail_revenue = the sums of the stored total_price over those records
\* of either sale type, total_revenue = their sum; with no start time every
\* record is counted, so total_sales is the ledger length.
\* (Checked under LedgerSpec.)
C11_SalesReportTotals ==
    /\ \A t \in DateMin..(MaxDate + 1) :
          SalesReport(sales_history, <<t>>) = Tally(From(t))
    /\ SalesReport(sales_history, <<>>) = Tally(1..Len(sales_history))
    /\ SalesReport(sales_history, <<>>).total_sales = Len(sales_history)
    /\ ret.kind = "sales_report" =>
          ret.val = Tally(IF ret.arg = <<>> THEN 1..Len(sales_history)
                                            ELSE From(ret.arg[1]))

\* C11 witness: a wholesale sale stamped 1 and a retail sale stamped 2; the
\* report from time 2, just returned, counts the record stamped exactly 2.
C11_Witness ==
    /\ Len(sales_history) = 2
    /\ sales_history[1].date = 1 /\ sales_history[1].sale_type = "wholesale"
    /\ sales_history[2].date = 2 /\ sales_history[2].sale_type = "retail"
    /\ ret.kind = "sales_report"
    /\ ret.arg = <<2>>
    /\ ret.val = [total_sales |-> 1, wholesale_revenue |-> 0,
                  retail_revenue |-> 1200, total_revenue |-> 1200]

\* a step on which one of the two reports returned
ReportStep == ret'.kind \in {"inventory_report", "sales_report"}

\* C12: get_inventory_report and get_sales_report are read-only and
\* repeatable: a report step leaves the catalog and the ledger unchanged, and
\* a second call with the same argument, with no mutating operation between,
\* returns the result of the first (the result held in ret is what a fresh
\* call would return now).
\* (Checked under LedgerSpec.)
C12_ReportsReadOnlyRepeatable ==
    /\ [](ret.kind = "inventory_report" => ret.val = InventoryReport(computers))
    /\ [](ret.kind = "sales_report"
            => ret.val = SalesReport(sales_history, ret.arg))
    /\ [][ReportStep
            => /\ computers' = computers
               /\ sales_history' = sales_history
               /\ (ret.kind = "inventory_report" /\ ret'.kind = ret.kind)
                     => ret'.val = ret.val
               /\ ( /\ ret.kind = "sales_report" /\ ret'.kind = ret.kind
                    /\ ret'.arg = ret.arg )
                     => ret'.val = ret.val]_vars

\* C12 witness: a sales report from time 1 was returned over a ledger of two
\* sales while the item is still in the catalog.
C12_Witness ==
    /\ ret.kind = "sales_report"
    /\ ret.arg = <<1>>
    /\ ret.val.total_sales = 2
    /\ "LP001" \in DOMAIN computers
    /\ Len(sales_history) = 2

\* a step on which add_computer, remove_computer or update_stock returned
CatalogStep == ret'.kind \in {"None", "bool"}

\* C13: history is captured, not recomputed: a later add_computer that
\* overwrites the item with other prices, an update_stock or a remove_computer
\* leaves every record (its unit_price and total_price too) and
\* get_sales_report(t) for every t unchanged: whatever a step does to the
\* catalog, the reports over the recorded sales stay what they were.
\* (Checked under LedgerSpec.)
C13_HistoryCaptured ==
    [][ /\ CatalogStep
          => /\ Len(sales_history') = Len(sales_history)
             /\ \A i \in 1..Len(sales_history) :
                  /\ sales_history'[i].unit_price = sales_history[i].unit_price
                  /\ sales_history'[i].total_price = sales_history[i].total_price
                  /\ sales_history'[i] = sales_history[i]
        /\ ( /\ computers' # computers
             /\ (CatalogStep \/ sales_history' = sales_history)
             /\ sales_history # <<>> )
          => \A start_date \in StartDates \cup {<<MaxDate + 1>>} :
               SalesReport(sales_history', start_date)
                 = SalesReport(sales_history, start_date) ]_vars

\* C13 witness: the item was sold retail at 1200, then overwritten with the
\* dearer price list; the record still carries 1200.
C13_Witness ==
    /\ Len(sales_history) >= 1
    /\ sales_history[1].sale_type = "retail"
    /\ sales_history[1].unit_price = 1200
    /\ sales_history[1].total_price = 1200
    /\ "LP001" \in DOMAIN computers
    /\ computers["LP001"].retail_price = 1500
    /\ ret = [kind |-> "None", val |-> None]

\* C14: update_stock(id, delta) on a present id returns True and sets the
\* item's stock to old stock + delta for a delta of any sign, with no clamp (so
\* the stock can go below zero), leaving the item's other fields, the other
\* items and the ledger unchanged; on an absent id it returns False and
\* changes nothing.
C14_UpdateStock ==
    [][ret'.kind = "bool"
         => \A computer_id \in AllIds, quantity \in Deltas :
              update_stock(computer_id, quantity)
              => /\ sales_history' = sales_history
                 /\ IF computer_id \in DOMAIN computers
                    THEN /\ ret' = [kind |-> "bool", val |-> TRUE]
                         /\ DOMAIN computers' = DOMAIN computers
                         /\ computers'[computer_id].stock
                              = computers[computer_id].stock + quantity
                         /\ computers'[computer_id].id = computer_id
                         /\ computers'[computer_id].wholesale_price
                              = computers[computer_id].wholesale_price
                         /\ computers'[computer_id].retail_price
                              = computers[computer_id].retail_price
                         /\ \A id \in DOMAIN computers \ {computer_id} :
                              computers'[id] = computers[id]
                    ELSE /\ ret' = [kind |-> "bool", val |-> FALSE]
                         /\ computers' = computers ]_vars

\* C14 witness: after a sale, an update_stock returned True and left one item
\* with stock -1 next to another item that still has stock.
C14_Witness ==
    /\ ret = [kind |-> "bool", val |-> TRUE]
    /\ Len(sales_history) >= 1
    /\ \E id \in DOMAIN computers : computers[id].stock = 0 - 1
    /\ \E id \in DOMAIN computers : computers[id].stock > 0

\* C15: every record of the ledger has a positive integer quantity
\* (quantity >= 1) in every reachable state, for every sequence of
\* process_sale calls with integer quantities.
C15_RecordQuantityPositive ==
    \A i \in 1..Len(sales_history) : sales_history[i].quantity >= 1

\* C16: remove_computer(id) on a present id deletes exactly that entry and
\* leaves every other entry and the ledger unchanged; while the id is absent,
\* process_sale on it raises "Computer not found" and update_stock on it
\* returns False, and only add_computer makes it present again;
\* remove_computer on an absent id raises nothing and changes nothing.
C16_RemoveComputer ==
    [][ /\ ret'.kind = "None"
          => \A computer_id \in AllIds :
               remove_computer(computer_id)
               => /\ ret' = [kind |-> "None", val |-> None]
                  /\ sales_history' = sales_history
                  /\ DOMAIN computers' = DOMAIN computers \ {computer_id}
                  /\ \A id \in DOMAIN computers \ {computer_id} :
                       computers'[id] = computers[id]
                  /\ computer_id \notin DOMAIN computers
                       => computers' = computers
        /\ ret'.kind = "ValueError"
          => \A computer_id \in AllIds \ DOMAIN computers :
               \A quantity \in Quantities, sale_type \in SaleType :
                 process_sale(computer_id, quantity, sale_type, Tick)
                 => /\ ret' = NotFoundError
                    /\ computer_id \notin DOMAIN computers'
        /\ ret'.kind = "bool"
          => \A computer_id \in AllIds \ DOMAIN computers :
               \A quantity \in Deltas :
                 update_stock(computer_id, quantity)
                 => /\ ret' = [kind |-> "bool", val |-> FALSE]
                    /\ computer_id \notin DOMAIN computers'
        /\ \A computer_id \in DOMAIN computers' \ DOMAIN computers :
             \E computer \in NewComputers :
               computer.id = computer_id /\ add_computer(computer) ]_vars

\* C16 witness: LP001 was sold and then removed while LP002 stays in the
\* catalog, and an update_stock on the removed id has just returned False.
C16_Witness ==
    /\ ret = [kind |-> "bool", val |-> FALSE]
    /\ DOMAIN computers = {"LP002"}
    /\ Len(sales_history) >= 1
    /\ sales_history[1].computer_id = "LP001"

\* the units of the item that the records of the ledger say were sold
RECURSIVE Sold(_, _)
Sold(history, id) ==
    IF history = <<>> THEN 0
    ELSE (IF Head(history).computer_id = id THEN Head(history).quantity ELSE 0)
         + Sold(Tail(history), id)

\* the item's stock on hand plus its units sold
OnHandPlusSold(catalog, history, id) == catalog[id].stock + Sold(history, id)

\* C17: stock conservation: while an item stays in the catalog without being
\* overwritten, its stock plus the quantities of its ledger records changes
\* only by the delta of an update_stock that returned True for it; so from
\* the stock s0 it was added with, stock = s0 + the deltas - the units sold,
\* and with no update_stock, stock + units sold = s0.
C17_StockConservation ==
    [][ /\ ret'.kind = "bool"
          => \A computer_id \in AllIds, quantity \in Deltas :
               update_stock(computer_id, quantity)
               => \A id \in DOMAIN computers :
                    OnHandPlusSold(computers', sales_history', id)
                      = OnHandPlusSold(computers, sales_history, id)
                        + (IF id = computer_id THEN quantity ELSE 0)
        /\ ret'.kind = "None"
          => \A id \in DOMAIN computers \cap DOMAIN computers' :
               \/ OnHandPlusSold(computers', sales_history', id)
                    = OnHandPlusSold(computers, sales_history, id)
               \/ \E computer \in NewComputers :
                    computer.id = id /\ add_computer(computer)
        /\ ( /\ ret'.kind \notin {"bool", "None"}
             /\ (computers' # computers \/ sales_history' # sales_history) )
          => /\ DOMAIN computers' = DOMAIN computers
             /\ \A id \in DOMAIN computers :
                  OnHandPlusSold(computers', sales_history', id)
                    = OnHandPlusSold(computers, sales_history, id) ]_vars

\* C17 witness: LP001 sold two units in one sale, is out of the first two it
\* had, and was then restocked by one: stock 1 = 2 + 1 - 2.
C17_Witness ==
    /\ ret = [kind |-> "bool", val |-> TRUE]
    /\ Len(sales_history) = 1
    /\ sales_history[1].computer_id = "LP001"
    /\ sales_history[1].quantity = 2
    /\ DOMAIN computers = {"LP001"}
    /\ computers["LP001"].stock = 1

====
